---- MODULE Spec2Model ----
(***************************************************************************)
(* Model of services/monitoring/accuracy_validator.ts (AccuracyValidator). *)
(*                                                                         *)
(* Numbers.  The code computes in IEEE doubles; the model keeps exact      *)
(* integers in fixed units:                                                *)
(*   odds, profitLoss      hundredths  (2.5 is 250)                        *)
(*   topPickConfidence,                                                    *)
(*   confidenceError       tenths      (0.8 is 8)                          *)
(*   rankCorrelation       ten-thousandths, the four decimals that         *)
(*                         toFixed(4) keeps (1.0 is 10000)                 *)
(* A value that may be null/undefined is an option: <<>> is null and <<v>> *)
(* is the value v.                                                         *)
(***************************************************************************)
EXTENDS Integers, Sequences, FiniteSets, TLC

VARIABLES predictions, raceResults, predictionAccuracy, runs

vars == <<predictions, raceResults, predictionAccuracy, runs>>

-----------------------------------------------------------------------------
(* Bounds of the model. *)

MaxActual == 3
MaxPredictions == 2
NumRuns == 2

(* Program constant: the fixed hypothetical stake. *)
STAKE == 10

-----------------------------------------------------------------------------
(* Values. *)

None == <<>>
Some(v) == <<v>>
IsNone(o) == Len(o) = 0
Get(o) == o[1]

Horses == {"A", "B", "C", "D"}
HorseOrder == <<"A", "B", "C", "D">>
Races == {"r1", "r2"}
Runs == 1..NumRuns

(* bettingSignal: null, the empty string, "avoid", or another signal. *)
NullSignal == "NULL"
Signals == {NullSignal, "", "avoid", "bet"}
Confidences == {3, 8}

(* Decimal odds (hundredths) paid at each finishing position. *)
OddsAt == <<250, 400, 1000, 100>>

Min(a, b) == IF a < b THEN a ELSE b
Abs(x) == IF x < 0 THEN -x ELSE x
Range(s) == {s[k] : k \in 1..Len(s)}
Injective(f) == \A a, b \in DOMAIN f : f[a] = f[b] => a = b
DistinctSeqs(S, n) == {s \in [1..n -> S] : Injective(s)}

-----------------------------------------------------------------------------
(* Array and Map primitives of the code. *)

(* Array.prototype.slice(0, k) *)
Slice(s, k) == SubSeq(s, 1, Min(k, Len(s)))

(* new Map(entries.map(e => [e.horse, e[field]])) followed by .has(key):  *)
MapHas(entries, key) == \E k \in 1..Len(entries) : entries[k].horse = key

(* ... followed by .get(key): a later entry of the same key overwrites an *)
(* earlier one; undefined when the key is absent.                         *)
MapGet(entries, key, field) ==
    IF MapHas(entries, key)
    THEN LET last == CHOOSE k \in 1..Len(entries) :
                        /\ entries[k].horse = key
                        /\ \A j \in 1..Len(entries) : entries[j].horse = key => j <= k
         IN Some(entries[last][field])
    ELSE None

(* x ?? d *)
OrElse(o, d) == IF IsNone(o) THEN d ELSE Get(o)

-----------------------------------------------------------------------------
(* calculateSpearmanCorrelation *)

RECURSIVE SumOver(_, _, _)
SumOver(S, predicted, actual) ==
    IF S = {} THEN 0
    ELSE LET horse == CHOOSE h \in S : TRUE
             d == Get(MapGet(predicted, horse, "rank"))
                  - Get(MapGet(actual, horse, "position"))
         IN d * d + SumOver(S \ {horse}, predicted, actual)

CommonHorses(predicted, actual) ==
    {predicted[k].horse : k \in 1..Len(predicted)}
        \cap {h \in Horses : MapHas(actual, h)}

(* Number(x.toFixed(4)) of the rational num/den, den > 0: the nearest      *)
(* multiple of 0.0001, a tie going away from zero.                         *)
ToFixed4(num, den) ==
    IF num >= 0
    THEN (2 * 10000 * num + den) \div (2 * den)
    ELSE -((2 * 10000 * (-num) + den) \div (2 * den))

(* Faulty variant: the factor 6 written as 3. *)
SpearmanFormulaHalved(sumDSquared, n) ==
    ToFixed4(n * (n * n - 1) - 3 * sumDSquared, n * (n * n - 1))

(* 1 - (6 * sumDSquared) / (n * (n * n - 1)), then toFixed(4) *)
SpearmanFormula(sumDSquared, n) ==
    ToFixed4(n * (n * n - 1) - 6 * sumDSquared, n * (n * n - 1))

calculateSpearmanCorrelation(predicted, actual) ==
    LET commonHorses == CommonHorses(predicted, actual)
        n == Cardinality(commonHorses)
    IN IF n < 2
       THEN None
       ELSE Some(SpearmanFormula(SumOver(commonHorses, predicted, actual), n))

-----------------------------------------------------------------------------
(* calculateAccuracy: the record it hands to db.insert. *)

(* Faulty variant: the truthiness test left out. *)
PlacesBetNoNullCheck(signal) == signal # "avoid"

(* prediction.bettingSignal && prediction.bettingSignal !== 'avoid' *)
PlacesBet(signal) ==
    /\ signal # NullSignal
    /\ signal # ""
    /\ signal # "avoid"

(* Faulty variant: the stake not deducted. *)
WinProfitNoMinusOne(stake, winnerOdds) == stake * winnerOdds

(* stake * (winnerOdds - 1), odds in hundredths *)
WinProfit(stake, winnerOdds) == stake * (winnerOdds - 100)

(* Faulty variant: the predicted ranks looked up. *)
TopPickPositionFromPredicted(prediction, result) ==
    MapGet(Get(prediction.predictedRankings), prediction.topPick, "rank")

(* actualPositionMap.get(prediction.topPick) ?? null *)
TopPickPosition(prediction, result) ==
    MapGet(result.actualRankings, prediction.topPick, "position")

calculateAccuracy(prediction, result, id) ==
    LET predictedRankings == Get(prediction.predictedRankings)
        actualRankings == result.actualRankings
        topPickCorrect == prediction.topPick = result.winner
        topPickPosition == TopPickPosition(prediction, result)
        predictedTop3 == Slice(predictedRankings, 3)
        top3Accuracy ==
            \E k \in 1..Len(predictedTop3) : predictedTop3[k].horse = result.winner
        rankCorrelation ==
            calculateSpearmanCorrelation(predictedRankings, actualRankings)
        confidenceError ==
            IF topPickCorrect
            THEN Abs(prediction.topPickConfidence - 10)
            ELSE Abs(prediction.topPickConfidence - 0)
        bets == PlacesBet(prediction.bettingSignal)
        winnerOdds ==
            OrElse(MapGet(actualRankings, prediction.topPick, "odds"), 100)
    IN [id |-> id,
        predictionId |-> prediction.id,
        raceResultId |-> result.id,
        topPickCorrect |-> topPickCorrect,
        topPickPosition |-> topPickPosition,
        top3Accuracy |-> top3Accuracy,
        rankCorrelation |-> rankCorrelation,
        confidenceError |-> confidenceError,
        bettingOutcome |->
            IF ~bets THEN "no_bet" ELSE IF topPickCorrect THEN "win" ELSE "loss",
        profitLoss |->
            IF ~bets THEN 0
            ELSE IF topPickCorrect THEN WinProfit(STAKE, winnerOdds)
            ELSE -(STAKE * 100)]

(* A null predictedRankings makes predictedRankings.slice throw a          *)
(* TypeError before anything is inserted.                                  *)
ScoringThrows(prediction) == IsNone(prediction.predictedRankings)

(* uuidv4(): an identifier no other record carries. *)
uuidv4(run, k) == <<run, k>>

(* Faulty variant: an insert that skips a prediction already scored. *)
InsertUnlessPresent(table, row) ==
    IF \E old \in table : old.predictionId = row.predictionId
    THEN table
    ELSE table \cup {row}

(* db.insert(predictionAccuracy).values(row): the table is the set of its  *)
(* rows, each with its own id.                                             *)
Insert(table, row) == table \cup {row}

-----------------------------------------------------------------------------
(* Inputs. *)

(* Predicted rankings: the first n horses of HorseOrder in stored order    *)
(* (any other choice of horses is this one renamed), their ranks any       *)
(* arrangement of 1..n: the stored order need not be the rank order.       *)
PredictedRankings ==
    UNION {{[k \in 1..n |-> [horse |-> HorseOrder[k], rank |-> ranks[k]]]
              : ranks \in DistinctSeqs(1..n, n)}
           : n \in 0..Len(HorseOrder)}

(* Actual rankings: n distinct horses in finishing order, positions 1..n. *)
ActualRankings ==
    UNION {{[k \in 1..n |-> [horse |-> hs[k], position |-> k, odds |-> OddsAt[k]]]
              : hs \in DistinctSeqs(Horses, n)}
           : n \in 0..Min(MaxActual, Len(OddsAt))}

IdleRun ==
    [pc |-> "idle", raceId |-> "r1", racePredictions |-> None,
     result |-> None, visited |-> {}, error |-> None]

-----------------------------------------------------------------------------
(* Scoring one prediction against one result: calculateAccuracy applied to *)
(* every input of the bounded sets.                                        *)

ScoreInit ==
    /\ \E pr \in PredictedRankings, tp \in Horses,
          c \in Confidences, s \in Signals :
          predictions = <<[id |-> 1, raceId |-> "r1",
                           predictedRankings |-> Some(pr), topPick |-> tp,
                           topPickConfidence |-> c, bettingSignal |-> s]>>
    /\ \E ar \in ActualRankings, w \in Horses :
          raceResults = {[id |-> "res-r1", raceId |-> "r1",
                          actualRankings |-> ar, winner |-> w]}
    /\ predictionAccuracy = {}
    /\ runs = [r \in Runs |-> IdleRun]

Score ==
    /\ predictionAccuracy = {}
    /\ \E k \in 1..Len(predictions), result \in raceResults :
          /\ ~ScoringThrows(predictions[k])
          /\ predictionAccuracy' =
                Insert(predictionAccuracy,
                       calculateAccuracy(predictions[k], result, uuidv4(0, 1)))
    /\ UNCHANGED <<predictions, raceResults, runs>>

ScoreNext == Score

ScoreSpec == ScoreInit /\ [][ScoreNext]_vars

-----------------------------------------------------------------------------
(* validatePrediction(raceId): one run per element of Runs, numbered in    *)
(* the order of the calls.  A run moves between its await points; runs     *)
(* interleave there.                                                       *)

(* Rows of the predictions and raceResults tables used by the runs. *)
PredictionContents ==
    {[predictedRankings |->
          Some(<<[horse |-> "A", rank |-> 1], [horse |-> "B", rank |-> 2],
                 [horse |-> "C", rank |-> 3]>>),
      topPick |-> "A", topPickConfidence |-> 8, bettingSignal |-> "bet"],
     [predictedRankings |-> None,
      topPick |-> "B", topPickConfidence |-> 3, bettingSignal |-> NullSignal]}

PredictionRow(k, race, c) ==
    [id |-> k, raceId |-> race, predictedRankings |-> c.predictedRankings,
     topPick |-> c.topPick, topPickConfidence |-> c.topPickConfidence,
     bettingSignal |-> c.bettingSignal]

ResultRow(race) ==
    [id |-> IF race = "r1" THEN "res-r1" ELSE "res-r2", raceId |-> race,
     actualRankings |->
         <<[horse |-> "A", position |-> 1, odds |-> OddsAt[1]],
           [horse |-> "C", position |-> 2, odds |-> OddsAt[2]],
           [horse |-> "B", position |-> 3, odds |-> OddsAt[3]]>>,
     winner |-> "A"]

Init ==
    /\ \E n \in 0..MaxPredictions :
         \E race \in [1..n -> Races], c \in [1..n -> PredictionContents] :
            predictions = [k \in 1..n |-> PredictionRow(k, race[k], c[k])]
    /\ \E present \in SUBSET Races :
         raceResults = {ResultRow(race) : race \in present}
    /\ predictionAccuracy = {}
    /\ runs = [r \in Runs |-> IdleRun]

(* db.select().from(predictions).where(eq(predictions.raceId, raceId)):    *)
(* the matching rows.  The query has no ORDER BY, so the array holds them  *)
(* in any order: the run keeps the rows, and the loop below draws the row  *)
(* of each iteration when it reaches it.                                   *)
SelectPredictions(raceId) ==
    {predictions[k] : k \in {k \in 1..Len(predictions) :
                                predictions[k].raceId = raceId}}

(* const [result] = await db.select().from(raceResults).where(...) *)
SelectResult(raceId) ==
    LET matching == {row \in raceResults : row.raceId = raceId}
    IN IF matching = {} THEN None ELSE Some(CHOOSE row \in matching : TRUE)

(* Faulty variant: the empty check left out. *)
NoPredictionsNever(racePredictions) == FALSE

(* racePredictions.length === 0 *)
NoPredictions(racePredictions) == Cardinality(racePredictions) = 0

(* !result *)
NoResult(result) == IsNone(result)

(* Faulty variant: the loop left after its first iteration. *)
RemainingNoneAfterFirst(racePredictions, visited) ==
    IF visited = {} THEN racePredictions ELSE {}

(* for (const prediction of racePredictions): the rows still to visit *)
Remaining(racePredictions, visited) ==
    {prediction \in racePredictions : prediction.id \notin visited}

(* Faulty variant: the error logged and not rethrown. *)
CatchSwallows(run, error) == [run EXCEPT !.pc = "returned"]

(* catch (error) { console.error(...); throw error; } *)
Catch(run, error) == [run EXCEPT !.pc = "thrown", !.error = Some(error)]

Error(kind, predictionId) == [kind |-> kind, at |-> predictionId]

(* The call validatePrediction(raceId).  The two races differ in name      *)
(* only, so the first call is taken to be the one for "r1".                *)
Start(r, raceId) ==
    /\ runs[r].pc = "idle"
    /\ \A earlier \in 1..(r - 1) : runs[earlier].pc # "idle"
    /\ r = 1 => raceId = "r1"
    /\ runs' = [runs EXCEPT ![r].pc = "selectPredictions", ![r].raceId = raceId]
    /\ UNCHANGED <<predictions, raceResults, predictionAccuracy>>

LoadPredictions(r) ==
    /\ runs[r].pc = "selectPredictions"
    /\ LET racePredictions == SelectPredictions(runs[r].raceId)
       IN runs' = [runs EXCEPT
                     ![r].racePredictions = Some(racePredictions),
                     ![r].pc = IF NoPredictions(racePredictions)
                               THEN "returned" ELSE "selectResult"]
    /\ UNCHANGED <<predictions, raceResults, predictionAccuracy>>

LoadPredictionsFails(r) ==
    /\ runs[r].pc = "selectPredictions"
    /\ runs' = [runs EXCEPT ![r] = Catch(runs[r], Error("SelectError", 0))]
    /\ UNCHANGED <<predictions, raceResults, predictionAccuracy>>

LoadResult(r) ==
    /\ runs[r].pc = "selectResult"
    /\ LET result == SelectResult(runs[r].raceId)
       IN runs' = [runs EXCEPT
                     ![r].result = Some(result),
                     ![r].pc = IF NoResult(result) THEN "returned" ELSE "scoring"]
    /\ UNCHANGED <<predictions, raceResults, predictionAccuracy>>

LoadResultFails(r) ==
    /\ runs[r].pc = "selectResult"
    /\ runs' = [runs EXCEPT ![r] = Catch(runs[r], Error("SelectError", 0))]
    /\ UNCHANGED <<predictions, raceResults, predictionAccuracy>>

(* One iteration: calculateAccuracy(prediction, result) up to and          *)
(* including its insert.                                                   *)
CalculateAccuracy(r) ==
    /\ runs[r].pc = "scoring"
    /\ \E prediction \in Remaining(Get(runs[r].racePredictions), runs[r].visited) :
          /\ ~ScoringThrows(prediction)
          /\ predictionAccuracy' =
                Insert(predictionAccuracy,
                       calculateAccuracy(prediction, Get(Get(runs[r].result)),
                                         uuidv4(r, Cardinality(runs[r].visited) + 1)))
          /\ runs' = [runs EXCEPT ![r].visited = @ \cup {prediction.id}]
    /\ UNCHANGED <<predictions, raceResults>>

(* The iteration throws before the insert (a TypeError). *)
CalculateAccuracyThrows(r) ==
    /\ runs[r].pc = "scoring"
    /\ \E prediction \in Remaining(Get(runs[r].racePredictions), runs[r].visited) :
          /\ ScoringThrows(prediction)
          /\ runs' = [runs EXCEPT
                        ![r] = Catch(runs[r], Error("TypeError", prediction.id))]
    /\ UNCHANGED <<predictions, raceResults, predictionAccuracy>>

(* The insert is rejected: no row is written. *)
InsertFails(r) ==
    /\ runs[r].pc = "scoring"
    /\ \E prediction \in Remaining(Get(runs[r].racePredictions), runs[r].visited) :
          /\ ~ScoringThrows(prediction)
          /\ runs' = [runs EXCEPT
                        ![r] = Catch(runs[r], Error("InsertError", prediction.id))]
    /\ UNCHANGED <<predictions, raceResults, predictionAccuracy>>

(* The loop is over: the success message, then the normal return. *)
LoopExit(r) ==
    /\ runs[r].pc = "scoring"
    /\ Remaining(Get(runs[r].racePredictions), runs[r].visited) = {}
    /\ runs' = [runs EXCEPT ![r].pc = "returned"]
    /\ UNCHANGED <<predictions, raceResults, predictionAccuracy>>

(* The race's result is published while runs are under way. *)
ResultArrives(raceId) ==
    /\ \A row \in raceResults : row.raceId # raceId
    /\ raceResults' = raceResults \cup {ResultRow(raceId)}
    /\ UNCHANGED <<predictions, predictionAccuracy, runs>>

Next ==
    \/ \E r \in Runs, raceId \in Races : Start(r, raceId)
    \/ \E r \in Runs : LoadPredictions(r)
    \/ \E r \in Runs : LoadPredictionsFails(r)
    \/ \E r \in Runs : LoadResult(r)
    \/ \E r \in Runs : LoadResultFails(r)
    \/ \E r \in Runs : CalculateAccuracy(r)
    \/ \E r \in Runs : CalculateAccuracyThrows(r)
    \/ \E r \in Runs : InsertFails(r)
    \/ \E r \in Runs : LoopExit(r)
    \/ \E raceId \in Races : ResultArrives(raceId)

Spec == Init /\ [][Next]_vars

-----------------------------------------------------------------------------
(* The inputs a persisted record was computed from. *)

Records == predictionAccuracy
PredictionOf(rec) == CHOOSE p \in Range(predictions) : p.id = rec.predictionId
ResultOf(rec) == CHOOSE r \in raceResults : r.id = rec.raceResultId
PredictedOf(rec) == Get(PredictionOf(rec).predictedRankings)
ActualOf(rec) == ResultOf(rec).actualRankings

(* rank unique, ascending from 1 along the stored sequence *)
RanksAscendingFromOne(pr) == \A k \in 1..Len(pr) : pr[k].rank = k
(* position unique, ascending from 1 along the stored sequence *)
PositionsAscendingFromOne(ar) == \A k \in 1..Len(ar) : ar[k].position = k
(* each competitor is listed once *)
ListedOnce(entries) ==
    \A j, k \in 1..Len(entries) : entries[j].horse = entries[k].horse => j = k
(* the result of the data model: winner is the competitor with position 1 *)
WellFormedResult(r) ==
    /\ PositionsAscendingFromOne(r.actualRankings)
    /\ ListedOnce(r.actualRankings)
    /\ Len(r.actualRankings) >= 1
    /\ r.winner = r.actualRankings[1].horse
HorsesOf(entries) == {entries[k].horse : k \in 1..Len(entries)}

-----------------------------------------------------------------------------
(* C1: for a predicted ranking (ranks ascending from 1) and an actual      *)
(* ranking (positions ascending from 1) that share at least 2 competitors, *)
(* also when the shared competitors are a strict subset of either, the     *)
(* stored rankCorrelation lies in [-1, 1].                                 *)
C1_RankCorrelationInRange ==
    \A rec \in Records :
        ( /\ RanksAscendingFromOne(PredictedOf(rec))
          /\ PositionsAscendingFromOne(ActualOf(rec))
          /\ Cardinality(HorsesOf(PredictedOf(rec)) \cap HorsesOf(ActualOf(rec))) >= 2 )
        => /\ ~IsNone(rec.rankCorrelation)
           /\ Get(rec.rankCorrelation) >= -10000
           /\ Get(rec.rankCorrelation) <= 10000

(* C2: for a result of the data model, topPickCorrect is true exactly when *)
(* topPickPosition is 1; it is false when topPickPosition is null.         *)
C2_TopPickCorrectIffPositionOne ==
    \A rec \in Records :
        WellFormedResult(ResultOf(rec))
        => /\ rec.topPickCorrect <=> (rec.topPickPosition = Some(1))
           /\ IsNone(rec.topPickPosition) => ~rec.topPickCorrect

C2_Witness ==
    \E rec \in Records :
        /\ WellFormedResult(ResultOf(rec))
        /\ Len(ActualOf(rec)) >= 2
        /\ rec.topPickCorrect
        /\ rec.topPickPosition = Some(1)

(* C3: top3Accuracy is true exactly when the winner is one of the (up to)  *)
(* three predicted entries of smallest rank, whatever the stored order.    *)
TopByRank(pr, k) ==
    {pr[a].horse : a \in {a \in 1..Len(pr) :
        Cardinality({b \in 1..Len(pr) : pr[b].rank < pr[a].rank}) < k}}

C3_Top3ByAscendingRank ==
    \A rec \in Records :
        rec.top3Accuracy <=> (ResultOf(rec).winner \in TopByRank(PredictedOf(rec), 3))

(* C4: a bettingSignal that is absent (null, empty) or "avoid" gives       *)
(* bettingOutcome "no_bet" and profitLoss 0, whatever the other fields.    *)
C4_NoBetWithoutSignal ==
    \A rec \in Records :
        PredictionOf(rec).bettingSignal \in {NullSignal, "", "avoid"}
        => rec.bettingOutcome = "no_bet" /\ rec.profitLoss = 0

C4_Witness ==
    \E rec \in Records :
        /\ PredictionOf(rec).bettingSignal = ""
        /\ rec.topPickCorrect
        /\ MapHas(ActualOf(rec), PredictionOf(rec).topPick)
        /\ rec.bettingOutcome = "no_bet"

(* C8: predicted and actual rankings over the same n >= 2 competitors,     *)
(* ranks and positions 1..n: the exact reverse order gives -1.0, the       *)
(* identical order gives 1.0.                                              *)
SameCompetitors(pr, ar) ==
    /\ Len(pr) >= 2
    /\ Len(ar) = Len(pr)
    /\ HorsesOf(pr) = HorsesOf(ar)
    /\ {pr[k].rank : k \in 1..Len(pr)} = 1..Len(pr)
    /\ PositionsAscendingFromOne(ar)
Reversed(pr, ar) ==
    \A j \in 1..Len(pr), k \in 1..Len(ar) :
        pr[j].horse = ar[k].horse => ar[k].position = Len(pr) + 1 - pr[j].rank
Identical(pr, ar) ==
    \A j \in 1..Len(pr), k \in 1..Len(ar) :
        pr[j].horse = ar[k].horse => ar[k].position = pr[j].rank

C8_ReversedAndIdenticalOrders ==
    \A rec \in Records :
        SameCompetitors(PredictedOf(rec), ActualOf(rec))
        => /\ Reversed(PredictedOf(rec), ActualOf(rec))
                => rec.rankCorrelation = Some(-10000)
           /\ Identical(PredictedOf(rec), ActualOf(rec))
                => rec.rankCorrelation = Some(10000)

C8_Witness ==
    \E rec \in Records :
        /\ SameCompetitors(PredictedOf(rec), ActualOf(rec))
        /\ Len(PredictedOf(rec)) = 3
        /\ Reversed(PredictedOf(rec), ActualOf(rec))
        /\ rec.rankCorrelation = Some(-10000)

(* C9: with a bettingSignal present and not "avoid": a correct top pick    *)
(* gives "win" and profitLoss 10 * (odds of topPick - 1), the odds taken   *)
(* as 1 (profitLoss 0) when topPick has no odds entry; otherwise "loss"    *)
(* and profitLoss -10.                                                     *)
C9_BetOutcomeAndProfit ==
    \A rec \in Records :
        LET p == PredictionOf(rec)
            r == ResultOf(rec)
        IN p.bettingSignal \notin {NullSignal, "", "avoid"}
           => IF p.topPick = r.winner
              THEN /\ rec.bettingOutcome = "win"
                   /\ \A k \in 1..Len(r.actualRankings) :
                        r.actualRankings[k].horse = p.topPick
                        => rec.profitLoss = 10 * (r.actualRankings[k].odds - 100)
                   /\ p.topPick \notin HorsesOf(r.actualRankings)
                        => rec.profitLoss = 0
              ELSE rec.bettingOutcome = "loss" /\ rec.profitLoss = -1000

C9_Witness ==
    \E rec \in Records :
        /\ PredictionOf(rec).bettingSignal = "bet"
        /\ WellFormedResult(ResultOf(rec))
        /\ PredictionOf(rec).topPick = ResultOf(rec).winner
        /\ rec.bettingOutcome = "win"
        /\ rec.profitLoss = 1500

-----------------------------------------------------------------------------
(* Properties of validatePrediction. *)

Finished(r) == runs[r].pc \in {"returned", "thrown"}
Loaded(r) == Get(runs[r].racePredictions)
(* the rows of predictionAccuracy run r inserted for prediction pid *)
InsertedFor(r, pid) ==
    {rec \in predictionAccuracy : rec.id[1] = r /\ rec.predictionId = pid}
InsertedBy(r) == {rec \in predictionAccuracy : rec.id[1] = r}
(* run r found predictions and a result *)
FoundBoth(r) ==
    /\ ~IsNone(runs[r].racePredictions)
    /\ Loaded(r) # {}
    /\ ~IsNone(runs[r].result)
    /\ ~IsNone(Get(runs[r].result))

(* C5: a run that finds no predictions, or predictions but no result,      *)
(* returns normally, raises nothing and inserts no record.                 *)
C5_AbsenceIsNoOp ==
    \A r \in Runs :
        ( /\ Finished(r)
          /\ ~IsNone(runs[r].racePredictions)
          /\ \/ Loaded(r) = {}
             \/ runs[r].result = Some(None) )
        => /\ runs[r].pc = "returned"
           /\ IsNone(runs[r].error)
           /\ InsertedBy(r) = {}
           /\ Loaded(r) = {} => IsNone(runs[r].result)

C5_Witness ==
    \E r \in Runs :
        /\ runs[r].pc = "returned"
        /\ Loaded(r) # {}
        /\ runs[r].result = Some(None)
        /\ predictionAccuracy # {}

(* C6: a run that completes without error, predictions and result present, *)
(* has inserted exactly one record per loaded prediction, carrying that    *)
(* prediction's id and the loaded result's id.                             *)
C6_OneRecordPerPrediction ==
    \A r \in Runs :
        (runs[r].pc = "returned" /\ FoundBoth(r))
        => /\ \A prediction \in Loaded(r) :
                /\ Cardinality(InsertedFor(r, prediction.id)) = 1
                /\ \A rec \in InsertedFor(r, prediction.id) :
                     rec.raceResultId = Get(Get(runs[r].result)).id
           /\ Cardinality(InsertedBy(r)) = Cardinality(Loaded(r))

C6_Witness ==
    \E r \in Runs :
        /\ runs[r].pc = "returned"
        /\ FoundBoth(r)
        /\ Cardinality(Loaded(r)) = 2
        /\ Cardinality(InsertedBy(r)) = 2

(* C7: when scoring or persisting a prediction fails (the k-th the loop    *)
(* visits), the run raises that error, no record exists for it or for any  *)
(* prediction not yet visited, and the records of the k-1 predictions      *)
(* visited before it remain.                                               *)
C7_FailFast ==
    \A r \in Runs :
        (Finished(r) /\ FoundBoth(r) /\ Cardinality(InsertedBy(r)) < Cardinality(Loaded(r)))
        => /\ runs[r].pc = "thrown"
           /\ ~IsNone(runs[r].error)
           /\ \E failed \in Loaded(r) :
                /\ failed.id \notin runs[r].visited
                /\ Get(runs[r].error) =
                     [kind |-> IF IsNone(failed.predictedRankings)
                               THEN "TypeError" ELSE "InsertError",
                      at |-> failed.id]
           /\ \A prediction \in Loaded(r) :
                Cardinality(InsertedFor(r, prediction.id)) =
                    IF prediction.id \in runs[r].visited THEN 1 ELSE 0

C7_Witness ==
    \E r \in Runs :
        /\ runs[r].pc = "thrown"
        /\ FoundBoth(r)
        /\ Cardinality(Loaded(r)) = 2
        /\ Cardinality(runs[r].visited) = 1
        /\ Cardinality(InsertedBy(r)) = 1

(* C10: two runs for the same race, predictions and result present, no     *)
(* failure, leave two records for every prediction of the race, one from   *)
(* each run: no run skips a prediction that already has a record.          *)
C10_NoDeduplication ==
    \A a, b \in Runs :
        ( /\ a # b
          /\ runs[a].pc = "returned" /\ FoundBoth(a)
          /\ runs[b].pc = "returned" /\ FoundBoth(b)
          /\ runs[a].raceId = runs[b].raceId )
        => \A k \in 1..Len(predictions) :
              predictions[k].raceId = runs[a].raceId
              => Cardinality(InsertedFor(a, predictions[k].id)
                             \cup InsertedFor(b, predictions[k].id)) = 2

C10_Witness ==
    \E a, b \in Runs :
        /\ a # b
        /\ runs[a].pc = "returned" /\ FoundBoth(a)
        /\ runs[b].pc = "returned" /\ FoundBoth(b)
        /\ runs[a].raceId = runs[b].raceId
        /\ Cardinality(Loaded(a)) = 2
        /\ Cardinality(predictionAccuracy) = 4

====
